---- MODULE Spec2Model ----
(***************************************************************************)
(* A model of src/src/atcoder.rs: the AtCoder client that logs in, reads   *)
(* contest and problem pages and submits solutions by interpreting HTML.   *)
(*                                                                         *)
(* Strings are sequences of characters (one-character TLA+ strings; a      *)
(* non-ASCII character is written by its code point, "U+5165"), so that    *)
(* trim, to_lowercase, starts_with and split_whitespace are computed.      *)
(* An Option is a sequence of length 0 (None) or 1 (Some).  A page is the  *)
(* part of the parsed document that the selectors of the code can see.     *)
(* A call ends "ok" (Ok), "err" (Err) or "panic" (an unwrap of None).      *)
(***************************************************************************)
EXTENDS Naturals, Sequences, FiniteSets, TLC

VARIABLES op, pc, arg, reqs, resps, inflight, page, probe, lists, result, contest

vars == <<op, pc, arg, reqs, resps, inflight, page, probe, lists, result, contest>>

(***************************************************************************)
(* Bounds of the model.                                                    *)
(***************************************************************************)
MaxAnchors == 2
MaxAlerts == 2
MaxTables == 2
MaxRows == 2
MaxBlocks == 3
MaxOptions == 2

None == <<>>
Some(x) == <<x>>

(***************************************************************************)
(* Strings.                                                                *)
(***************************************************************************)
is_whitespace(c) == c = " "

RECURSIVE trim_start(_)
trim_start(s) ==
    IF s # <<>> /\ is_whitespace(Head(s)) THEN trim_start(Tail(s)) ELSE s

RECURSIVE trim_end(_)
trim_end(s) ==
    IF s # <<>> /\ is_whitespace(s[Len(s)])
    THEN trim_end(SubSeq(s, 1, Len(s) - 1))
    ELSE s

trim(s) == trim_end(trim_start(s))

to_lowercase_char(c) ==
    CASE c = "A" -> "a"
      [] c = "B" -> "b"
      [] c = "C" -> "c"
      [] c = "R" -> "r"
      [] c = "U" -> "u"
      [] c = "S" -> "s"
      [] c = "T" -> "t"
      [] OTHER -> c

to_lowercase(s) == [i \in 1..Len(s) |-> to_lowercase_char(s[i])]

starts_with(s, p) == Len(p) <= Len(s) /\ SubSeq(s, 1, Len(p)) = p

\* The longest prefix of s without whitespace.
RECURSIVE take_token(_)
take_token(s) ==
    IF s = <<>> \/ is_whitespace(Head(s))
    THEN <<>>
    ELSE <<Head(s)>> \o take_token(Tail(s))

\* s.split_whitespace().next(): the first token, None when s has none.
first_token(s) ==
    IF trim_start(s) = <<>> THEN None ELSE Some(take_token(trim_start(s)))

(***************************************************************************)
(* The transport client: a response is a body or an error.                 *)
(***************************************************************************)
HttpErrors == {"transport", "404", "500"}

is_http_error(e, status) == e = status

NoPage == [kind |-> "none"]
NoLists == [inputs_ja |-> <<>>, outputs_ja |-> <<>>,
            inputs_en |-> <<>>, outputs_en |-> <<>>]
NoResult == [kind |-> "none", err |-> <<>>, text |-> <<>>, value |-> <<>>]

Ok(v) == [kind |-> "ok", err |-> <<>>, text |-> <<>>, value |-> v]
Err(chain, text) == [kind |-> "err", err |-> chain, text |-> text, value |-> <<>>]
Panic == [kind |-> "panic", err |-> <<>>, text |-> <<>>, value |-> <<>>]

(***************************************************************************)
(* The home page and the session probe.                                    *)
(***************************************************************************)
UsersPrefix == <<"/", "u", "s", "e", "r", "s", "/">>

\* The href attributes of the page's `li a` anchors, in document order.
Hrefs == { UsersPrefix \o <<"b", "o">>,
           UsersPrefix \o <<"a">>,
           <<"/", "h", "o", "m", "e">> }

HomePage(anchors) == [kind |-> "home", anchors |-> anchors]

\* username, lines 66-76: the first anchor whose href starts with /users/.
username_of(doc) ==
    LET r == SelectSeq(doc.anchors, LAMBDA h : starts_with(h, UsersPrefix))
    IN  IF r = <<>>
        THEN None
        ELSE Some(SubSeq(r[1], 8, Len(r[1])))

Init ==
    /\ op = "idle"
    /\ pc = "idle"
    /\ arg = <<>>
    /\ reqs = <<>>
    /\ resps = <<>>
    /\ inflight = 0
    /\ page = NoPage
    /\ probe = None
    /\ lists = NoLists
    /\ result = NoResult
    /\ contest = None

\* The call starts and its first request leaves: http_get up to its await.
Send(r, at) ==
    /\ reqs' = Append(reqs, r)
    /\ resps' = resps
    /\ inflight' = inflight + 1
    /\ pc' = at
    /\ result' = result

\* The awaited response r arrives ("ok" for a body, else the error) and the
\* call goes on to its next request.
SendNext(r, req, at) ==
    /\ resps' = Append(resps, r)
    /\ reqs' = Append(reqs, req)
    /\ inflight' = (inflight - 1) + 1
    /\ pc' = at
    /\ result' = result

\* The awaited response r arrives and the call returns (or unwinds) with res.
Finish(r, res) ==
    /\ resps' = Append(resps, r)
    /\ inflight' = inflight - 1
    /\ pc' = "done"
    /\ result' = res
    /\ reqs' = reqs

Start(o, a) ==
    /\ pc = "idle"
    /\ op' = o
    /\ arg' = a

(***************************************************************************)
(* username, lines 62-77.                                                  *)
(***************************************************************************)
username_call ==
    /\ Start("username", <<>>)
    /\ Send("GET /", "username_get")
    /\ UNCHANGED <<page, probe, lists, contest>>

username_fail ==
    /\ op = "username" /\ pc = "username_get"
    /\ \E e \in HttpErrors :
        Finish(e, Err(<<e>>, <<>>))
    /\ UNCHANGED <<op, arg, page, probe, lists, contest>>

username_recv ==
    /\ op = "username" /\ pc = "username_get"
    /\ \E n \in 0..MaxAnchors : \E a \in [1..n -> Hrefs] :
        /\ page' = HomePage(a)
        /\ Finish("ok", Ok(username_of(HomePage(a))))
    /\ UNCHANGED <<op, arg, probe, lists, contest>>

(***************************************************************************)
(* login, lines 79-135.                                                    *)
(***************************************************************************)
Token == <<"t", "k">>

\* The page's input[name="csrf_token"] elements, each with its value attribute.
CsrfFields == { <<>>, <<[value |-> None]>>, <<[value |-> Some(Token)]>> }

LoginPages == {[kind |-> "login", csrf |-> c] : c \in CsrfFields}

\* Lines 83-91: the value of the first csrf_token input, None when either is absent.
csrf_token_of(doc) ==
    IF doc.csrf = <<>> THEN None ELSE doc.csrf[1].value

Element == [kind |-> "element", text |-> <<>>]
Text(s) == [kind |-> "text", text |-> s]

\* The child nodes of a div, in order.
Children == { <<>>,
              <<Text(<<"x">>), Element>>,
              <<Element, Text(<<" ", "n", "o", " ">>)>>,
              <<Text(<<"x">>)>> }

AlertClasses == { {}, {"alert-danger"}, {"alert-success"},
                  {"alert-danger", "alert-success"} }

\* The div elements of the response to the POST, in document order.
Alerts == {[classes |-> c, children |-> ch] : c \in AlertClasses, ch \in Children}

LoginResponse(alerts) == [kind |-> "login_post", alerts |-> alerts]

select_class(doc, cls) == SelectSeq(doc.alerts, LAMBDA d : cls \in d.classes)

UnknownError == <<"U", "n", "k", "n", "o", "w", "n", " ", "e", "r", "r", "o", "r">>

\* Line 117: err.last_child().unwrap().value().as_text().unwrap().trim()
last_child_text(d) ==
    IF d.children = <<>> \/ d.children[Len(d.children)].kind # "text"
    THEN None
    ELSE Some(trim(d.children[Len(d.children)].text))

\* Lines 104-134: the result of login from the response to the POST.
login_classify(res) ==
    LET danger == select_class(res, "alert-danger")
        success == select_class(res, "alert-success")
    IN  IF danger # <<>>
        THEN IF last_child_text(danger[1]) = None
             THEN Panic
             ELSE Err(<<"LoginFailed">>, last_child_text(danger[1])[1])
        ELSE IF success # <<>>
             THEN Ok(<<>>)
             ELSE Err(<<"LoginFailed">>, UnknownError)

login_call ==
    /\ Start("login", <<>>)
    /\ Send("GET /login", "login_get")
    /\ UNCHANGED <<page, probe, lists, contest>>

login_get_fail ==
    /\ op = "login" /\ pc = "login_get"
    /\ \E e \in HttpErrors :
        Finish(e, Err(<<e>>, <<>>))
    /\ UNCHANGED <<op, arg, page, probe, lists, contest>>

login_get_recv ==
    /\ op = "login" /\ pc = "login_get"
    /\ \E doc \in LoginPages :
        /\ page' = doc
        /\ IF csrf_token_of(doc) = None
           THEN Finish("ok", Err(<<"cannot find csrf_token">>, <<>>))
           ELSE SendNext("ok", "POST /login", "login_post")
    /\ UNCHANGED <<op, arg, probe, lists, contest>>

login_post_fail ==
    /\ op = "login" /\ pc = "login_post"
    /\ \E e \in HttpErrors :
        Finish(e, Err(<<e>>, <<>>))
    /\ UNCHANGED <<op, arg, page, probe, lists, contest>>

login_post_recv ==
    /\ op = "login" /\ pc = "login_post"
    /\ \E n \in 0..MaxAlerts : \E a \in [1..n -> Alerts] :
        /\ page' = LoginResponse(a)
        /\ Finish("ok", login_classify(LoginResponse(a)))
    /\ UNCHANGED <<op, arg, probe, lists, contest>>

(***************************************************************************)
(* problem_ids_from_score_table, lines 137-170.                            *)
(***************************************************************************)
Task == <<"T", "a", "s", "k">>
Score == <<"S", "c", "o", "r", "e">>
Mondai == <<"U+554F", "U+984C">>
Tensu == <<"U+70B9", "U+6570">>

\* A cell (th or td) is the sequence of the text nodes below it; a header or
\* a body row is the sequence of its cells.
Headers == { << <<Task>>, <<Score>> >>,
             << <<Mondai>>, <<Tensu>> >>,
             << <<Task>> >> }

ScoreRows == { << <<<<"A">>>>, <<<<"1">>>> >>,
               << <<<<"B">>>>, <<<<"1">>>> >>,
               << <<<<"C">>>>, <<>> >>,
               << <<<<"A">>, <<"B">>>> >>,
               << <<<<"A">>>>, <<<<"1">>>>, <<<<"1">>>> >> }

\* The tables under "#contest-statement > .lang > .lang-ja", in document
\* order.  The rows of a table are read only when it is the single match,
\* so at most one table of a page is given body rows.
ScorePage(hs, k, r) ==
    [kind |-> "score",
     tables |-> [i \in DOMAIN hs |->
                    [header |-> hs[i], rows |-> IF i = k THEN r ELSE <<>>]]]

\* flat_map(|r| r.text()).collect(): the text nodes of the cells, in order.
RECURSIVE texts_of(_)
texts_of(cells) ==
    IF cells = <<>> THEN <<>> ELSE Head(cells) \o texts_of(Tail(cells))

\* Lines 145-151: the filter on a table's header.
header_matches(table) ==
    \/ texts_of(table.header) = <<Task, Score>>
    \/ texts_of(table.header) = <<Mondai, Tensu>>

\* Lines 157-166: one body row.
score_row(tr) ==
    IF Len(texts_of(tr)) = 2 THEN Some(texts_of(tr)[1]) ELSE None

\* Lines 143-169.
score_table_ids(doc) ==
    LET found == SelectSeq(doc.tables, header_matches)
    IN  IF Len(found) # 1
        THEN Ok(None)
        ELSE IF \E i \in 1..Len(found[1].rows) : score_row(found[1].rows[i]) = None
             THEN Err(<<"could not parse the table">>, <<>>)
             ELSE Ok(Some([i \in 1..Len(found[1].rows) |->
                               score_row(found[1].rows[i])[1]]))

problem_ids_from_score_table_call ==
    /\ Start("problem_ids_from_score_table", <<>>)
    /\ Send("GET /contests/{id}", "score_get")
    /\ UNCHANGED <<page, probe, lists, contest>>

problem_ids_from_score_table_fail ==
    /\ op = "problem_ids_from_score_table" /\ pc = "score_get"
    /\ \E e \in HttpErrors :
        Finish(e, Err(<<e>>, <<>>))
    /\ UNCHANGED <<op, arg, page, probe, lists, contest>>

problem_ids_from_score_table_recv ==
    /\ op = "problem_ids_from_score_table" /\ pc = "score_get"
    /\ \E n \in 0..MaxTables, m \in 0..MaxRows :
       \E hs \in [1..n -> Headers], k \in 1..MaxTables, r \in [1..m -> ScoreRows] :
        /\ k <= n \/ (k = 1 /\ m = 0)
        /\ page' = ScorePage(hs, k, r)
        /\ Finish("ok", score_table_ids(ScorePage(hs, k, r)))
    /\ UNCHANGED <<op, arg, probe, lists, contest>>

(***************************************************************************)
(* contest_info, lines 172-228, retrieve_text_or_error_message, lines      *)
(* 397-415, and ContestInfo::problem, lines 35-40.                         *)
(***************************************************************************)
Anchor(href, html) == [href |-> href, inner_html |-> html]
Cell(anchors, html) == [anchors |-> anchors, inner_html |-> html]

TaskUrl == <<"/", "t">>

IdCell(id) == Cell(<<Anchor(Some(TaskUrl), id)>>, id)
NameCell == Cell(<<Anchor(Some(<<" ">> \o TaskUrl), <<"N", " ">>)>>, <<"N", " ">>)
TleCell == Cell(<<>>, <<" ", "2">>)
MleCell == Cell(<<>>, <<"1">>)

GoodRow(id) == <<IdCell(id), NameCell, TleCell, MleCell>>

\* The td cells of a `table tbody tr` row, in order.
TaskRows == { GoodRow(<<"A">>), GoodRow(<<" ", "a">>), GoodRow(<<"B">>),
              <<IdCell(<<"A">>), NameCell, TleCell>>,
              GoodRow(<<"B">>) \o <<MleCell>>,
              <<TleCell, NameCell, TleCell, MleCell>>,
              <<IdCell(<<"A">>), Cell(<<Anchor(None, <<"N">>)>>, <<"N">>),
                TleCell, MleCell>> }

TasksPage(rows) == [kind |-> "tasks", rows |-> rows]

\* Lines 188-224: one row; None where the code unwraps a None.
task_row(row) ==
    IF Len(row) < 4
    THEN None
    ELSE IF row[1].anchors = <<>> \/ row[2].anchors = <<>>
         THEN None
         ELSE IF row[2].anchors[1].href = None
              THEN None
              ELSE Some([id |-> trim(row[1].anchors[1].inner_html),
                         _name |-> trim(row[2].anchors[1].inner_html),
                         url |-> trim(row[2].anchors[1].href[1]),
                         _tle |-> trim(row[3].inner_html),
                         _mle |-> trim(row[4].inner_html)])

\* Lines 182-227.
contest_info_parse(doc) ==
    IF \E i \in 1..Len(doc.rows) : task_row(doc.rows[i]) = None
    THEN Panic
    ELSE Ok([i \in 1..Len(doc.rows) |-> task_row(doc.rows[i])[1]])

\* A mutant of not_found_error: the two messages are exchanged.
not_found_error_swapped(username) ==
    IF username = None
    THEN Err(<<"You are not participating, or it does not yet exist", "404">>, <<>>)
    ELSE Err(<<"You are not logged in. Please login first", "404">>, <<>>)

\* Lines 404-410: the error for a 404, from the result of the session probe.
not_found_error(username) ==
    IF username # None
    THEN Err(<<"You are not participating, or it does not yet exist", "404">>, <<>>)
    ELSE Err(<<"You are not logged in. Please login first", "404">>, <<>>)

contest_info_call ==
    /\ Start("contest_info", <<>>)
    /\ Send("GET /contests/{id}/tasks", "tasks_get")
    /\ UNCHANGED <<page, probe, lists, contest>>

\* Lines 402-413: the first GET fails.
contest_info_fail ==
    /\ op = "contest_info" /\ pc = "tasks_get"
    /\ \E e \in HttpErrors :
        IF is_http_error(e, "404")
        THEN SendNext(e, "GET /", "tasks_probe")
        ELSE Finish(e, Err(<<e>>, <<>>))
    /\ UNCHANGED <<op, arg, page, probe, lists, contest>>

contest_info_probe_fail ==
    /\ op = "contest_info" /\ pc = "tasks_probe"
    /\ \E e \in HttpErrors :
        Finish(e, Err(<<e>>, <<>>))
    /\ UNCHANGED <<op, arg, page, probe, lists, contest>>

contest_info_probe_recv ==
    /\ op = "contest_info" /\ pc = "tasks_probe"
    /\ \E n \in 0..MaxAnchors : \E a \in [1..n -> Hrefs] :
        /\ probe' = Some(username_of(HomePage(a)))
        /\ Finish("ok", not_found_error(username_of(HomePage(a))))
    /\ UNCHANGED <<op, arg, page, lists, contest>>

contest_info_recv ==
    /\ op = "contest_info" /\ pc = "tasks_get"
    /\ \E n \in 0..MaxRows : \E r \in [1..n -> TaskRows] :
        /\ page' = TasksPage(r)
        /\ Finish("ok", contest_info_parse(TasksPage(r)))
        /\ contest' = IF contest_info_parse(TasksPage(r)).kind = "ok"
                      THEN Some([problems |-> contest_info_parse(TasksPage(r)).value])
                      ELSE None
    /\ UNCHANGED <<op, arg, probe, lists>>

ProblemIds == { <<"a">>, <<"A">>, <<"b">>, <<"B">>, <<"c">> }

\* A mutant of find: the ids are compared as they are written.
RECURSIVE find_case_sensitive(_, _)
find_case_sensitive(problems, id) ==
    IF problems = <<>>
    THEN None
    ELSE IF Head(problems).id = id
         THEN Some(Head(problems))
         ELSE find_case_sensitive(Tail(problems), id)

\* Lines 36-40: find the first problem whose id matches.
RECURSIVE find(_, _)
find(problems, id) ==
    IF problems = <<>>
    THEN None
    ELSE IF to_lowercase(Head(problems).id) = to_lowercase(id)
         THEN Some(Head(problems))
         ELSE find(Tail(problems), id)

problem(self, id) == find(self.problems, id)

\* The caller looks a problem up in the ContestInfo it holds.
problem_call ==
    /\ pc = "done" /\ contest # None
    /\ \E id \in ProblemIds :
        /\ op' = "problem"
        /\ arg' = id
        /\ result' = Ok(problem(contest[1], id))
    /\ reqs' = <<>>
    /\ resps' = <<>>
    /\ UNCHANGED <<pc, inflight, page, probe, lists, contest>>

(***************************************************************************)
(* test_cases, lines 230-304.                                              *)
(***************************************************************************)
MarkerInputJa == <<"U+5165", "U+529B", "U+4F8B">>
MarkerOutputJa == <<"U+51FA", "U+529B", "U+4F8B">>
MarkerInputEn == <<"S", "a", "m", "p", "l", "e", " ", "I", "n", "p", "u", "t">>
MarkerOutputEn == <<"S", "a", "m", "p", "l", "e", " ", "O", "u", "t", "p", "u", "t">>

\* The inner_html of the first h3 of a block.
Labels == { MarkerInputJa \o <<" ", "1">>,
            <<" ">> \o MarkerOutputJa \o <<" ", "1", " ">>,
            <<" ">> \o MarkerInputEn \o <<" ", "1">>,
            MarkerOutputEn,
            <<"U+5165", "U+529B">> }

\* What a block holds besides its headings.
Shapes == {"no pre", "one pre", "two text nodes", "two pre"}

Digit(i) == <<"1", "2", "3", "4", "5", "6", "7", "8", "9">>[i]

\* The pre elements of the i-th block, each the sequence of its text nodes.
Pres(shape, i) ==
    CASE shape = "no pre" -> <<>>
      [] shape = "one pre" -> << <<<<" ", Digit(i), " ">>>> >>
      [] shape = "two text nodes" -> << <<<<Digit(i)>>, <<"x">>>> >>
      [] shape = "two pre" -> << <<<<Digit(i), " ">>>>, <<<<"y">>>> >>

\* The parent blocks of the page's h3 elements, in the order of the h3s.
ProblemPage(ls, sh) ==
    [kind |-> "problem",
     blocks |-> [i \in DOMAIN ls |-> [label |-> ls[i], pre |-> Pres(sh[i], i)]]]

\* Lines 257-265, the closure f: None where next() is unwrapped on None.
f(p) ==
    IF p.pre = <<>>
    THEN None
    ELSE IF Len(p.pre[1]) = 1 THEN Some(trim(p.pre[1][1])) ELSE Some(<<>>)

\* Lines 266-278: the lists a label appends to.
pushes(label) ==
    { "inputs_ja" : x \in IF starts_with(label, MarkerInputJa) THEN {1} ELSE {} }
    \cup { "outputs_ja" : x \in IF starts_with(label, MarkerOutputJa) THEN {1} ELSE {} }
    \cup { "inputs_en" : x \in IF starts_with(label, MarkerInputEn) THEN {1} ELSE {} }
    \cup { "outputs_en" : x \in IF starts_with(label, MarkerOutputEn) THEN {1} ELSE {} }

\* Lines 242-279: the loop over the h3 elements, from the lists ls on;
\* None when f panics.
RECURSIVE collect(_, _)
collect(blocks, ls) ==
    IF blocks = <<>>
    THEN Some(ls)
    ELSE LET p == Head(blocks)
             to == pushes(trim(p.label))
         IN  IF to = {}
             THEN collect(Tail(blocks), ls)
             ELSE IF f(p) = None
                  THEN None
                  ELSE collect(Tail(blocks),
                               [k \in DOMAIN ls |->
                                   IF k \in to THEN Append(ls[k], f(p)[1]) ELSE ls[k]])

TestCase(input, output) == [input |-> input, output |-> output]

\* Lines 281-303: the choice of the variant and the pairing.
select_pairs(ls) ==
    LET pairs(inputs, outputs) ==
            Ok([i \in 1..Len(inputs) |-> TestCase(inputs[i], outputs[i])])
    IN  IF ls.inputs_ja # <<>> /\ Len(ls.inputs_ja) = Len(ls.outputs_ja)
        THEN pairs(ls.inputs_ja, ls.outputs_ja)
        ELSE IF ls.inputs_en # <<>> /\ Len(ls.inputs_en) = Len(ls.outputs_en)
             THEN pairs(ls.inputs_en, ls.outputs_en)
             ELSE Err(<<"Could not scrape sample test cases">>,
                      <<Len(ls.inputs_ja), Len(ls.outputs_ja),
                        Len(ls.inputs_en), Len(ls.outputs_en)>>)

\* Lines 233-303, from the parsed page on.
test_cases_parse(doc) ==
    IF collect(doc.blocks, NoLists) = None
    THEN /\ lists' = lists
         /\ Finish("ok", Panic)
    ELSE /\ lists' = collect(doc.blocks, NoLists)[1]
         /\ Finish("ok", select_pairs(collect(doc.blocks, NoLists)[1]))

\* Lines 417-421: the URL of a problem page may fail to parse; then no
\* request leaves.
test_cases_call ==
    /\ Start("test_cases", <<>>)
    /\ \E parses \in BOOLEAN :
        IF parses
        THEN Send("GET {problem_url}", "problem_get")
        ELSE /\ pc' = "done"
             /\ result' = Err(<<"url">>, <<>>)
             /\ UNCHANGED <<reqs, resps, inflight>>
    /\ UNCHANGED <<page, probe, lists, contest>>

test_cases_fail ==
    /\ op = "test_cases" /\ pc = "problem_get"
    /\ \E e \in HttpErrors :
        Finish(e, Err(<<e>>, <<>>))
    /\ UNCHANGED <<op, arg, page, probe, lists, contest>>

test_cases_recv ==
    /\ op = "test_cases" /\ pc = "problem_get"
    /\ \E n \in 0..MaxBlocks : \E ls \in [1..n -> Labels], sh \in [1..n -> Shapes] :
        /\ page' = ProblemPage(ls, sh)
        /\ test_cases_parse(ProblemPage(ls, sh))
    /\ UNCHANGED <<op, arg, probe, contest>>

(***************************************************************************)
(* submit, lines 306-395, and check_login, lines 54-60.                    *)
(***************************************************************************)
ScreenNames == {"abc_a", "abc_b"}

\* The inner_html of an option of the task selector.
TaskLabels == { <<"A", " ", "-", " ", "x">>, <<" ", "a", "b">>, <<" ">> }

\* The options of select[name="data.TaskScreenName"], with their value attribute.
TaskOptions ==
    {[inner_html |-> l, value |-> v] :
        l \in TaskLabels, v \in {None} \cup {Some(n) : n \in ScreenNames}}

Rust == <<"r", "u", "s", "t">>

Blank == [inner_html |-> <<>>, value |-> Some("")]
RustOption == [inner_html |-> <<"R", "u", "s", "t", " ", "(", "1", ")">>,
               value |-> Some("4050")]
RustNoValue == [inner_html |-> Rust, value |-> None]
OtherOption == [inner_html |-> <<"C">>, value |-> Some("4003")]

\* The options under div[id="select-lang-{task}"], in order.
LanguageSelects == { <<>>, <<Blank, OtherOption, RustOption>>, <<Blank, RustNoValue>> }

SubmitPage(tasks, langs, csrf) ==
    [kind |-> "submit", tasks |-> tasks, langs |-> langs, csrf |-> csrf]

\* The arguments problem_id of a call.
SubmitIds == { <<"a">>, <<"A", "B">>, <<"b">> }

\* Line 325-330: the test of one option of the task selector; None where
\* the first token is unwrapped and there is none.
task_matches(r, problem_id) ==
    IF first_token(r.inner_html) = None
    THEN None
    ELSE Some(starts_with(to_lowercase(first_token(r.inner_html)[1]),
                          to_lowercase(problem_id)))

\* Lines 321-336: Ok(screen name), Err(problem not found) or a panic.
RECURSIVE task_screen_name(_, _)
task_screen_name(options, problem_id) ==
    IF options = <<>>
    THEN Err(<<"Problem not found">>, problem_id)
    ELSE IF task_matches(Head(options), problem_id) = None
         THEN Panic
         ELSE IF task_matches(Head(options), problem_id)[1]
              THEN IF Head(options).value = None
                   THEN Panic
                   ELSE Ok(Head(options).value[1])
              ELSE task_screen_name(Tail(options), problem_id)

\* Lines 346-351: unwrap_or("") makes an option without a token no match.
language_matches(r) ==
    starts_with(to_lowercase(IF first_token(r.inner_html) = None
                             THEN <<>>
                             ELSE first_token(r.inner_html)[1]),
                Rust)

\* Lines 338-360.
RECURSIVE language_id(_, _)
language_id(options, problem_id) ==
    IF options = <<>>
    THEN Err(<<"Rust seems to be not available">>, problem_id)
    ELSE IF language_matches(Head(options))
         THEN IF Head(options).value = None
              THEN Panic
              ELSE Ok(<<Head(options).value[1], Head(options).inner_html>>)
         ELSE language_id(Tail(options), problem_id)

\* Lines 362-368: both unwraps.
submit_csrf_token(doc) ==
    IF csrf_token_of(doc) = None THEN Panic ELSE Ok(csrf_token_of(doc)[1])

\* Lines 318-376: the form of the POST, or the error or panic that ends
\* the call before it.
submit_form(doc, problem_id) ==
    LET task == task_screen_name(doc.tasks, problem_id)
    IN  IF task.kind # "ok"
        THEN task
        ELSE LET lang == language_id(doc.langs[task.value], problem_id)
             IN  IF lang.kind # "ok"
                 THEN lang
                 ELSE IF submit_csrf_token(doc).kind # "ok"
                      THEN Panic
                      ELSE Ok([task_screen_name |-> task.value,
                               language_id |-> lang.value[1],
                               language_name |-> lang.value[2],
                               csrf_token |-> submit_csrf_token(doc).value])

\* Line 312: check_login sends the session probe.
submit_call ==
    /\ \E problem_id \in SubmitIds : Start("submit", problem_id)
    /\ Send("GET /", "submit_probe")
    /\ UNCHANGED <<page, probe, lists, contest>>

submit_probe_fail ==
    /\ op = "submit" /\ pc = "submit_probe"
    /\ \E e \in HttpErrors :
        Finish(e, Err(<<e>>, <<>>))
    /\ UNCHANGED <<op, arg, page, probe, lists, contest>>

\* A mutant of submit_probe_recv: the result of check_login is dropped.
submit_probe_recv_unchecked ==
    /\ op = "submit" /\ pc = "submit_probe"
    /\ \E n \in 0..MaxAnchors : \E a \in [1..n -> Hrefs] :
        /\ probe' = Some(username_of(HomePage(a)))
        /\ SendNext("ok", "GET /contests/{id}/submit", "submit_get")
    /\ UNCHANGED <<op, arg, page, lists, contest>>

\* Lines 54-60 and 314-316.
submit_probe_recv ==
    /\ op = "submit" /\ pc = "submit_probe"
    /\ \E n \in 0..MaxAnchors : \E a \in [1..n -> Hrefs] :
        /\ probe' = Some(username_of(HomePage(a)))
        /\ IF username_of(HomePage(a)) = None
           THEN Finish("ok", Err(<<"You are not logged in. Please login first.">>, <<>>))
           ELSE SendNext("ok", "GET /contests/{id}/submit", "submit_get")
    /\ UNCHANGED <<op, arg, page, lists, contest>>

submit_get_fail ==
    /\ op = "submit" /\ pc = "submit_get"
    /\ \E e \in HttpErrors :
        Finish(e, Err(<<e>>, <<>>))
    /\ UNCHANGED <<op, arg, page, probe, lists, contest>>

\* Lines 318-388: the page is parsed and the form is posted.
submit_get_recv ==
    /\ op = "submit" /\ pc = "submit_get"
    /\ \E n \in 0..MaxOptions :
       \E t \in [1..n -> TaskOptions], l \in [ScreenNames -> LanguageSelects],
          c \in CsrfFields :
        /\ page' = SubmitPage(t, l, c)
        /\ IF submit_form(SubmitPage(t, l, c), arg).kind # "ok"
           THEN Finish("ok", submit_form(SubmitPage(t, l, c), arg))
           ELSE SendNext("ok", "POST /contests/{id}/submit", "submit_post")
    /\ UNCHANGED <<op, arg, probe, lists, contest>>

\* A mutant of submit_post_fail: a failed POST is sent once more.
submit_post_fail_retry ==
    /\ op = "submit" /\ pc = "submit_post"
    /\ \E e \in HttpErrors :
        IF Len(reqs) < 4
        THEN SendNext(e, "POST /contests/{id}/submit", "submit_post")
        ELSE Finish(e, Err(<<e>>, <<>>))
    /\ UNCHANGED <<op, arg, page, probe, lists, contest>>

submit_post_fail ==
    /\ op = "submit" /\ pc = "submit_post"
    /\ \E e \in HttpErrors :
        Finish(e, Err(<<e>>, <<>>))
    /\ UNCHANGED <<op, arg, page, probe, lists, contest>>

\* Lines 390-394: the body of the response is not read.
submit_post_recv ==
    /\ op = "submit" /\ pc = "submit_post"
    /\ Finish("ok", Ok(<<>>))
    /\ UNCHANGED <<op, arg, page, probe, lists, contest>>

\* The caller takes the result; the records of the call are dropped.
Return ==
    /\ pc = "done"
    /\ op' = "idle"
    /\ pc' = "idle"
    /\ arg' = <<>>
    /\ reqs' = <<>>
    /\ resps' = <<>>
    /\ inflight' = 0
    /\ page' = NoPage
    /\ probe' = None
    /\ lists' = NoLists
    /\ result' = NoResult
    /\ contest' = None

Next ==
    \/ username_call
    \/ username_fail
    \/ username_recv
    \/ login_call
    \/ login_get_fail
    \/ login_get_recv
    \/ login_post_fail
    \/ login_post_recv
    \/ problem_ids_from_score_table_call
    \/ problem_ids_from_score_table_fail
    \/ problem_ids_from_score_table_recv
    \/ contest_info_call
    \/ contest_info_fail
    \/ contest_info_probe_fail
    \/ contest_info_probe_recv
    \/ contest_info_recv
    \/ problem_call
    \/ test_cases_call
    \/ test_cases_fail
    \/ test_cases_recv
    \/ submit_call
    \/ submit_probe_fail
    \/ submit_probe_recv
    \/ submit_get_fail
    \/ submit_get_recv
    \/ submit_post_fail
    \/ submit_post_recv
    \/ Return

Spec == Init /\ [][Next]_vars

(***************************************************************************)
(* The claims.                                                             *)
(***************************************************************************)
Done(o) == op = o /\ pc = "done"

\* The least element of a non-empty set of indices.
Least(S) == CHOOSE i \in S : \A j \in S : i <= j

\* The first whitespace-delimited token of label exists and starts with id,
\* ignoring case.
TokenStartsWith(label, id) ==
    /\ first_token(label) # None
    /\ starts_with(to_lowercase(first_token(label)[1]), to_lowercase(id))

\* C1: login classifies the response to the POST by banner only.  With an
\* error banner login fails with the trimmed trailing text of the (first)
\* error banner, also when a success banner is present; with a success
\* banner and no error banner login succeeds; with neither login fails with
\* the unknown-error message.
C1_LoginClassifiesByBanner ==
    (Done("login") /\ page.kind = "login_post") =>
        LET danger == {i \in DOMAIN page.alerts :
                          "alert-danger" \in page.alerts[i].classes}
            success == {i \in DOMAIN page.alerts :
                          "alert-success" \in page.alerts[i].classes}
            banner == page.alerts[Least(danger)]
            last == banner.children[Len(banner.children)]
        IN  IF danger # {}
            THEN /\ result.kind = "err"
                 /\ result.err = <<"LoginFailed">>
                 /\ (banner.children # <<>> /\ last.kind = "text")
                        => result.text = trim(last.text)
            ELSE IF success # {}
                 THEN result.kind = "ok"
                 ELSE result = Err(<<"LoginFailed">>, UnknownError)

\* C2: test_cases returns the Japanese pairs if there are Japanese inputs
\* and as many Japanese outputs, otherwise the English pairs under the same
\* condition, otherwise an error with the four counts; the pairs are
\* (inputs[i], outputs[i]) of the one chosen variant, as many as its inputs.
C2_TestCasesSelection ==
    (Done("test_cases") /\ page.kind = "problem") =>
        LET count(marker) ==
                Cardinality({i \in DOMAIN page.blocks :
                                starts_with(trim(page.blocks[i].label), marker)})
            pairs(inputs, outputs) ==
                [i \in 1..Len(inputs) |-> [input |-> inputs[i], output |-> outputs[i]]]
        IN  IF count(MarkerInputJa) > 0 /\ count(MarkerInputJa) = count(MarkerOutputJa)
            THEN /\ result.kind = "ok"
                 /\ Len(result.value) = count(MarkerInputJa)
                 /\ result.value = pairs(lists.inputs_ja, lists.outputs_ja)
            ELSE IF count(MarkerInputEn) > 0
                    /\ count(MarkerInputEn) = count(MarkerOutputEn)
                 THEN /\ result.kind = "ok"
                      /\ Len(result.value) = count(MarkerInputEn)
                      /\ result.value = pairs(lists.inputs_en, lists.outputs_en)
                 ELSE /\ result.kind = "err"
                      /\ result.text = <<count(MarkerInputJa), count(MarkerOutputJa),
                                         count(MarkerInputEn), count(MarkerOutputEn)>>

\* C3: when no option of the task selector has a first token that starts
\* with problem_id ignoring case, submit by a logged-in session fails with
\* "Problem not found" naming problem_id, and sends no POST.
C3_ProblemNotFound ==
    (/\ Done("submit") /\ page.kind = "submit"
     /\ \A i \in DOMAIN page.tasks : ~TokenStartsWith(page.tasks[i].inner_html, arg))
    =>  /\ result = Err(<<"Problem not found">>, arg)
        /\ \A i \in DOMAIN reqs : reqs[i] # "POST /contests/{id}/submit"

\* C4: after a 404 on the GET of the task list contest_info probes the
\* session and never succeeds: it reports "not participating or does not
\* exist" when the probe finds a username and "not logged in" when it finds
\* none.  Any other failure of the first GET is returned as it is, without
\* a probe.
C4_NotFoundDisambiguated ==
    (op = "contest_info" /\ resps # <<>> /\ resps[1] # "ok") =>
        IF resps[1] = "404"
        THEN /\ result.kind # "ok"
             /\ reqs = <<"GET /contests/{id}/tasks", "GET /">>
             /\ (Len(resps) = 2 /\ resps[2] = "ok") =>
                    /\ pc = "done" /\ result.kind = "err" /\ probe # None
                    /\ probe[1] # None =>
                         result.err[1] = "You are not participating, or it does not yet exist"
                    /\ probe[1] = None =>
                         result.err[1] = "You are not logged in. Please login first"
        ELSE /\ pc = "done"
             /\ result = Err(<<resps[1]>>, <<>>)
             /\ reqs = <<"GET /contests/{id}/tasks">>
             /\ probe = None

C4_Witness ==
    /\ Done("contest_info") /\ resps = <<"404", "ok">>
    /\ probe # None /\ probe[1] # None
    /\ result.err[1] = "You are not participating, or it does not yet exist"

\* C5: of the tables whose header text is exactly Task, Score (or its
\* Japanese form): with one such table whose body rows all have two cells
\* the result is Some(list), one id per row in row order; with none or
\* several it is None; with one such table and a row that does not have two
\* cells the call fails.
C5_ScoreTableByCells ==
    (Done("problem_ids_from_score_table") /\ page.kind = "score") =>
        LET found == {i \in DOMAIN page.tables :
                         \/ texts_of(page.tables[i].header) = <<Task, Score>>
                         \/ texts_of(page.tables[i].header) = <<Mondai, Tensu>>}
            rows == page.tables[Least(found)].rows
        IN  IF Cardinality(found) # 1
            THEN result = Ok(None)
            ELSE IF \A r \in DOMAIN rows : Len(rows[r]) = 2
                 THEN /\ result.kind = "ok"
                      /\ result.value # None
                      /\ Len(result.value[1]) = Len(rows)
                      /\ \A r \in DOMAIN rows :
                            <<result.value[1][r]>> = rows[r][1]
                 ELSE result.kind = "err"

\* C6: every public operation sends at most two requests in a call, one
\* after another, with no two in flight at once.
C6_AtMostTwoRequests ==
    /\ Len(reqs) <= 2
    /\ inflight <= 1

\* C6, amended: the requests of a call are sent one after another, with no
\* two in flight at once; username, problem_ids_from_score_table and
\* test_cases send at most one, login and contest_info at most two, and
\* submit at most three.
C6_RequestBudget ==
    /\ inflight <= 1
    /\ inflight = Len(reqs) - Len(resps)
    /\ Len(reqs) <= (CASE op \in {"idle", "problem"} -> 0
                       [] op \in {"username", "problem_ids_from_score_table",
                                  "test_cases"} -> 1
                       [] op \in {"login", "contest_info"} -> 2
                       [] op = "submit" -> 3)

C6_Witness ==
    /\ op = "submit"
    /\ reqs = <<"GET /", "GET /contests/{id}/submit", "POST /contests/{id}/submit">>
    /\ inflight = 1

\* C7: the text taken from a block with a sample label is the trimmed text
\* of its sole pre element, and the empty string when the block has no pre
\* element or more than one; test_cases does not abort on such a block.
C7_SolePreOrEmpty ==
    (Done("test_cases") /\ page.kind = "problem") =>
        LET text(b) == IF Len(b.pre) = 1 THEN trim(texts_of(b.pre[1])) ELSE <<>>
            labelled(marker) ==
                SelectSeq(page.blocks, LAMBDA b : starts_with(trim(b.label), marker))
            expected(marker) ==
                [i \in 1..Len(labelled(marker)) |-> text(labelled(marker)[i])]
        IN  /\ result.kind # "panic"
            /\ lists.inputs_ja = expected(MarkerInputJa)
            /\ lists.outputs_ja = expected(MarkerOutputJa)
            /\ lists.inputs_en = expected(MarkerInputEn)
            /\ lists.outputs_en = expected(MarkerOutputEn)

\* C8: contest_info makes a Problem of a row only if the row has four
\* cells; a row with fewer or more cells makes the call return an error
\* (no abort, no Problem); when every row has four cells the result holds
\* one Problem per row in page order.
C8_FourCellRows ==
    (Done("contest_info") /\ page.kind = "tasks") =>
        IF \A i \in DOMAIN page.rows : Len(page.rows[i]) = 4
        THEN /\ result.kind = "ok"
             /\ Len(result.value) = Len(page.rows)
        ELSE result.kind = "err"

\* Two characters are the same letter, whatever their case.
SameLetter(c, d) ==
    c = d \/ {c, d} \in {{"a", "A"}, {"b", "B"}, {"c", "C"}}

EqualIgnoringCase(s, t) ==
    Len(s) = Len(t) /\ \A i \in DOMAIN s : SameLetter(s[i], t[i])

\* C9: ContestInfo::problem returns the first Problem in page order whose
\* id equals the argument ignoring case, None when there is none, and so
\* the same result for two arguments that differ only in case.
C9_ProblemIgnoresCase ==
    op = "problem" =>
        LET problems == contest[1].problems
            hits == {i \in DOMAIN problems : EqualIgnoringCase(problems[i].id, arg)}
        IN  /\ result.value = IF hits = {} THEN None ELSE Some(problems[Least(hits)])
            /\ \A id \in ProblemIds :
                  EqualIgnoringCase(id, arg) => problem(contest[1], id) = result.value

C9_Witness ==
    /\ op = "problem" /\ arg = <<"b">>
    /\ Len(contest[1].problems) = 2
    /\ result.value # None /\ result.value[1].id = <<"B">>

SubmitRequests ==
    <<"GET /", "GET /contests/{id}/submit", "POST /contests/{id}/submit">>

\* The task screen name, the language id of that task and the csrf token
\* can all be read from doc for problem_id.
Resolved(doc, problem_id) ==
    LET hits == {i \in DOMAIN doc.tasks :
                    TokenStartsWith(doc.tasks[i].inner_html, problem_id)}
        task == doc.tasks[Least(hits)].value
        options == doc.langs[task[1]]
        rust == {k \in DOMAIN options : TokenStartsWith(options[k].inner_html, Rust)}
    IN  /\ hits # {} /\ task # None
        /\ rust # {} /\ options[Least(rust)].value # None
        /\ doc.csrf # <<>> /\ doc.csrf[1].value # None

\* C10: submit sends the session probe, then the GET of the submission
\* page, then at most one POST.  The POST is sent only if the probe found a
\* username and the task, the language and the csrf token were read from
\* the fetched page; without a username submit fails with the login error
\* after the probe alone; a failed request is the last one of the call.
C10_SubmitOrder ==
    op = "submit" =>
        /\ \E n \in 1..3 : reqs = SubSeq(SubmitRequests, 1, n)
        /\ Len(reqs) = 3 =>
              /\ probe # None /\ probe[1] # None
              /\ page.kind = "submit" /\ Resolved(page, arg)
        /\ (probe # None /\ probe[1] = None) =>
              /\ pc = "done"
              /\ result = Err(<<"You are not logged in. Please login first.">>, <<>>)
              /\ reqs = <<"GET /">>
        /\ \A i \in DOMAIN resps :
              resps[i] # "ok" =>
                  /\ i = Len(reqs) /\ pc = "done"
                  /\ result = Err(<<resps[i]>>, <<>>)

C10_Witness ==
    /\ Done("submit") /\ result.kind = "ok"
    /\ reqs = SubmitRequests /\ resps = <<"ok", "ok", "ok">>
====
